---- MODULE Spec2Model ----
(***************************************************************************)
(* Seq2SeqModel of pykp/model.py: construction (__init__), the bridge      *)
(* (init_decoder_state) and the teacher-forced decode loop of forward.     *)
(*                                                                         *)
(* Tensors are modelled by what the controller does with them.  A hidden   *)
(* state of one batch item is a provenance tag: HInit for a slice of       *)
(* h_t_init, HNext(k) for the slice the decoder returned at step k.  The   *)
(* coverage accumulator is CovZeros or CovNext(k).  Tokens are strings.    *)
(* The encoder and the decoder are external collaborators.                 *)
(***************************************************************************)
EXTENDS Integers, Sequences, FiniteSets, TLC

VARIABLES
    pc,                  \* position: "new", "constructed", "construct_failed",
                         \*           "loop", "returned", "failed"
    error,               \* the exception that ended __init__ or forward, or "none"
    self,                \* the fields __init__ assigns
    trg,                 \* forward argument: target rows, [batch][trg_seq_len]
    num_trgs,            \* forward argument: quota vector or None
    batch_size,          \* src.size(0)
    max_target_length,   \* trg.size(1)
    t,                   \* loop index of the next iteration
    pred_counters,       \* [batch] uint8
    re_init_indicators,  \* [batch] BOOLEAN, unbound before t = 1
    h_t_init,            \* [batch] initial decoder state
    y_t_init,            \* [batch] BOS
    h_t,                 \* [batch] hidden state fed to the decoder
    y_t,                 \* [batch] token fed to the decoder
    h_t_next,            \* [batch] hidden state the decoder returned
    y_t_next,            \* [batch] trg[:, t] of the last iteration
    coverage,            \* coverage accumulator or None
    decoder_memory_bank, \* review memory (sequence over time) or None
    decoder_dist_all,    \* list of per-step distributions
    attention_dist_all,  \* list of per-step attentions
    coverage_all,        \* list of per-step coverages, or None
    decoder_calls,       \* inputs of every self.decoder(...) invocation, in order
    result               \* the tuple forward returns

vars == <<pc, error, self, trg, num_trgs, batch_size, max_target_length, t,
          pred_counters, re_init_indicators, h_t_init, y_t_init, h_t, y_t,
          h_t_next, y_t_next, coverage, decoder_memory_bank, decoder_dist_all,
          attention_dist_all, coverage_all, decoder_calls, result>>

callVars == <<trg, num_trgs, batch_size, max_target_length>>

loopVars == <<t, pred_counters, re_init_indicators, h_t_init, y_t_init, h_t, y_t,
              h_t_next, y_t_next, coverage, decoder_memory_bank, decoder_dist_all,
              attention_dist_all, coverage_all, decoder_calls, result>>

----------------------------------------------------------------------------
(* Bounds of the explored inputs *)

MaxT == 3          \* longest target (trg.size(1)) of the short inputs
MaxQuota == 2      \* largest entry of num_trgs
LongT == 257       \* target length of the long inputs

----------------------------------------------------------------------------
(* Values *)

None == <<"None">>
NoneList == <<None>>     \* None held by a name that otherwise holds a list
Unbound == <<>>          \* a name no statement has assigned yet

BOS == "<bos>"
EOS == "<eos>"
WORD == "word"
TrgTokens == {EOS, WORD}

Uint8Mod == 256          \* torch.uint8 arithmetic wraps modulo 2^8

HInit == <<"h_t_init">>
HNext(k) == <<"h_t_next", k>>
CovZeros == <<"zeros">>
CovNext(k) == <<"coverage", k>>

vocab_size == 3
max_src_len == 2
max_num_oov == 1
BatchSizes == {1, 2}

Bridges == {"none", "copy", "dense", "dense_nonlinear", "mlp"}
EncoderSizes == {1}
DecoderSizes == {2}
Modes == {1, 2, 3}

FeatureSets == [coverage_attn : BOOLEAN, copy_attn : BOOLEAN, review_attn : BOOLEAN]

Opts == [bridge : Bridges, bidirectional : BOOLEAN, encoder_size : EncoderSizes,
         decoder_size : DecoderSizes, one2many : BOOLEAN, one2many_mode : Modes,
         features : FeatureSets]

Rows(B, T) == [1..B -> [1..T -> TrgTokens]]
ShortTargets == UNION {Rows(B, T) : B \in BatchSizes, T \in 0..MaxT}
LongTargets == {[b \in 1..1 |-> [i \in 1..LongT |-> EOS]]}

\* the num_trgs argument: absent (the default None) or a list
NoNumTrgs == [given |-> FALSE, list |-> <<>>]
NumTrgs(q) == [given |-> TRUE, list |-> q]
QuotaVectors(B) == [1..B -> 0..MaxQuota]
NumTrgsChoices(B) ==
    {NoNumTrgs} \cup {NumTrgs(q) : q \in QuotaVectors(B)}
                \cup {NumTrgs([b \in 1..(B + 1) |-> 1])}

ShortInputs ==
    UNION {{[trg |-> m, num_trgs |-> q] : q \in NumTrgsChoices(Len(m))} : m \in ShortTargets}
LongInputs ==
    {[trg |-> m, num_trgs |-> q] : m \in LongTargets,
                                   q \in {NoNumTrgs, NumTrgs(<<1>>), NumTrgs(<<1, 1>>)}}

----------------------------------------------------------------------------
(* Construction *)

num_directions(opt) == IF opt.bidirectional THEN 2 ELSE 1

\* lines 107-112: the bridge layer; nn.tanh is no attribute of torch.nn, so
\* evaluating line 110 raises
bridge_layer(opt) ==
    IF opt.bridge = "dense" THEN <<"Linear">>
    ELSE IF opt.bridge = "dense_nonlinear" THEN <<"AttributeError">>
    ELSE None

\* variant: an encoder output narrower than the decoder state is let through
BridgeCopyAssert_AtMost(opt) ==
    opt.bridge = "copy" => opt.encoder_size * num_directions(opt) <= opt.decoder_size

\* lines 114-115
BridgeCopyAssert(opt) ==
    opt.bridge = "copy" => opt.encoder_size * num_directions(opt) = opt.decoder_size

InitError(opt) ==
    IF bridge_layer(opt) = <<"AttributeError">>
    THEN "AttributeError: module torch.nn has no attribute tanh"
    ELSE IF ~BridgeCopyAssert(opt)
    THEN "AssertionError: encoder hidden size and decoder hidden size are not match"
    ELSE "none"

Fields(opt) ==
    [bridge |-> opt.bridge,
     num_directions |-> num_directions(opt),
     encoder_size |-> opt.encoder_size,
     decoder_size |-> opt.decoder_size,
     one2many |-> opt.one2many,
     one2many_mode |-> opt.one2many_mode,
     coverage_attn |-> opt.features.coverage_attn,
     copy_attn |-> opt.features.copy_attn,
     review_attn |-> opt.features.review_attn,
     bridge_layer |-> IF bridge_layer(opt) = <<"AttributeError">> THEN Unbound
                      ELSE bridge_layer(opt)]

\* Seq2SeqModel(opt)
Construct ==
    /\ pc = "new"
    /\ \E opt \in Opts :
         /\ self' = Fields(opt)
         /\ error' = InitError(opt)
         /\ pc' = IF InitError(opt) = "none" THEN "constructed" ELSE "construct_failed"
    /\ UNCHANGED <<callVars, loopVars>>

----------------------------------------------------------------------------
(* forward: entry *)

\* line 154: the configurations in which forward reads num_trgs
QuotaAware(m) == m.one2many /\ m.one2many_mode > 1

\* variant: the check guards mode 2 only, as the docstring of forward words it
NumTrgsError_Mode2Only(m, q, B) ==
    IF m.one2many /\ m.one2many_mode = 2
    THEN IF ~q.given
         THEN "AssertionError: you must supply the number of targets in each sample"
         ELSE IF Len(q.list) # B
         THEN "AssertionError: The length of num_trgs is incorrect"
         ELSE "none"
    ELSE "none"

\* lines 154-156
NumTrgsError(m, q, B) ==
    IF QuotaAware(m)
    THEN IF ~q.given
         THEN "AssertionError: you must supply the number of targets in each sample"
         ELSE IF Len(q.list) # B
         THEN "AssertionError: The length of num_trgs is incorrect"
         ELSE "none"
    ELSE "none"

\* init_decoder_state, lines 306-315: the exception it raises, or "none"
InitDecoderStateError(m) ==
    IF m.bridge = "none"
    THEN "AttributeError: NoneType object has no attribute unsqueeze"
    ELSE IF m.bridge = "copy" THEN "none"
    ELSE IF m.bridge_layer = None THEN "TypeError: NoneType object is not callable"
    ELSE "none"

\* init_decoder_state: one slice per batch item, the same on every layer
init_decoder_state(m, B) == [b \in 1..B |-> HInit]

EntryError(m, q, B) ==
    IF NumTrgsError(m, q, B) # "none" THEN NumTrgsError(m, q, B)
    ELSE InitDecoderStateError(m)

\* lines 147-182 for one call
Forward(in) ==
    LET B == Len(in.trg)
        err == EntryError(self, in.num_trgs, B)
    IN  /\ error' = err
        /\ batch_size' = B
        \* outside the quota-aware configurations no statement reads the list
        /\ num_trgs' = IF QuotaAware(self) THEN in.num_trgs
                       ELSE [in.num_trgs EXCEPT !.list = <<>>]
        \* the target of a call that fails the checks of lines 154-156 is never read
        /\ trg' = IF NumTrgsError(self, in.num_trgs, B) # "none" THEN trg ELSE in.trg
        /\ IF err # "none"
           THEN /\ pc' = "failed"
                /\ UNCHANGED <<max_target_length, loopVars>>
           ELSE /\ pc' = "loop"
                /\ max_target_length' = Len(in.trg[1])
                /\ t' = 0
                /\ h_t_init' = init_decoder_state(self, B)
                /\ decoder_dist_all' = <<>>
                /\ attention_dist_all' = <<>>
                /\ coverage' = IF self.coverage_attn THEN CovZeros ELSE None
                /\ coverage_all' = IF self.coverage_attn THEN <<>> ELSE NoneList
                /\ decoder_memory_bank' =
                       IF self.review_attn THEN <<init_decoder_state(self, B)>>
                       ELSE NoneList
                /\ y_t_init' = [b \in 1..B |-> BOS]
                /\ UNCHANGED <<pred_counters, re_init_indicators, h_t, y_t, h_t_next,
                               y_t_next, decoder_calls, result>>
        /\ UNCHANGED self

ForwardCall ==
    /\ pc = "constructed"
    /\ \E in \in ShortInputs : Forward(in)

ForwardCallLong ==
    /\ pc = "constructed"
    /\ \E in \in LongInputs : Forward(in)

----------------------------------------------------------------------------
(* forward: one iteration of the decode loop, lines 221-284 *)

\* line 228
Indicators(yn) == [b \in DOMAIN yn |-> yn[b] = EOS]

\* variant: the counter counts steps, not end-markers
AddIndicators_EveryStep(counters, ind) ==
    [b \in DOMAIN counters |-> (counters[b] + 1) % Uint8Mod]

\* line 229: in-place uint8 addition
AddIndicators(counters, ind) ==
    [b \in DOMAIN counters |-> (counters[b] + (IF ind[b] THEN 1 ELSE 0)) % Uint8Mod]

\* re_init_indicators.sum().item() > 0
AnyIndicator(ind) == \E b \in DOMAIN ind : ind[b]

\* variant: every fired indicator re-initialises, whatever the counter
ResetItem_IgnoresQuota(indicator, pred_count, trg_count) == indicator

\* variant: the quota test admits a counter that has reached the quota
ResetItem_AtQuota(indicator, pred_count, trg_count) ==
    indicator /\ pred_count <= trg_count

\* lines 246 and 264
ResetItem(indicator, pred_count, trg_count) == indicator /\ pred_count < trg_count

\* lines 238, 255: which branch of the dispatch iteration k takes
Branch(m, k, ind) ==
    IF k = 0 THEN "first"
    ELSE IF m.one2many /\ m.one2many_mode = 2 /\ AnyIndicator(ind) THEN "mode2"
    ELSE IF m.one2many /\ m.one2many_mode = 3 /\ AnyIndicator(ind) THEN "mode3"
    ELSE "continue"

\* variant: mode 3 re-initialises the hidden state as mode 2 does
SelectH_Mode3Resets(br, ind, counters, quota, hinit, hnext) ==
    IF br = "first" THEN hinit
    ELSE IF br \in {"mode2", "mode3"}
    THEN [b \in DOMAIN hnext |->
            IF ResetItem(ind[b], counters[b], quota[b]) THEN hinit[b] ELSE hnext[b]]
    ELSE hnext

\* variant: the plain branch restarts from the initial state
SelectH_ContinueFromInit(br, ind, counters, quota, hinit, hnext) ==
    IF br = "first" THEN hinit
    ELSE IF br = "mode2"
    THEN [b \in DOMAIN hnext |->
            IF ResetItem(ind[b], counters[b], quota[b]) THEN hinit[b] ELSE hnext[b]]
    ELSE IF br = "mode3" THEN hnext
    ELSE hinit

\* lines 232, 241-253, 258, 271
SelectH(br, ind, counters, quota, hinit, hnext) ==
    IF br = "first" THEN hinit
    ELSE IF br = "mode2"
    THEN [b \in DOMAIN hnext |->
            IF ResetItem(ind[b], counters[b], quota[b]) THEN hinit[b] ELSE hnext[b]]
    ELSE hnext

\* variant: one item that is reset resets the token of the whole batch
SelectY_BatchReset(br, ind, counters, quota, yinit, ynext) ==
    IF br = "first" THEN yinit
    ELSE IF br \in {"mode2", "mode3"}
    THEN IF \E b \in DOMAIN ynext : ResetItem(ind[b], counters[b], quota[b])
         THEN yinit ELSE ynext
    ELSE ynext

\* variant: the continue branch feeds the initial token instead of the target's
SelectY_ContinueFromInit(br, ind, counters, quota, yinit, ynext) ==
    IF br \in {"mode2", "mode3"}
    THEN [b \in DOMAIN ynext |->
            IF ResetItem(ind[b], counters[b], quota[b]) THEN yinit[b] ELSE ynext[b]]
    ELSE yinit

\* lines 233, 242-254, 259-269, 272
SelectY(br, ind, counters, quota, yinit, ynext) ==
    IF br = "first" THEN yinit
    ELSE IF br \in {"mode2", "mode3"}
    THEN [b \in DOMAIN ynext |->
            IF ResetItem(ind[b], counters[b], quota[b]) THEN yinit[b] ELSE ynext[b]]
    ELSE ynext

\* variant: the memory also grows at step 0
ReviewMemory_AppendsAtZero(m, k, bank, h) ==
    IF m.review_attn THEN Append(bank, h) ELSE bank

\* lines 274-276
ReviewMemory(m, k, bank, h) ==
    IF m.review_attn /\ k > 0 THEN Append(bank, h) ELSE bank

\* variant: the decoder is handed a fresh accumulator at every step
DecoderArgs_FreshCoverage(k, y, h, cov, bank) ==
    [step |-> k, y_t |-> y, h_t |-> h,
     coverage |-> IF cov = None THEN None ELSE CovZeros,
     decoder_memory_bank |-> bank]

\* lines 278-279: the arguments of self.decoder(...) that the loop computes
DecoderArgs(k, y, h, cov, bank) ==
    [step |-> k, y_t |-> y, h_t |-> h, coverage |-> cov, decoder_memory_bank |-> bank]

\* the decoder collaborator, one step: what it returns at step k
DecoderStep(m, k, B, cov) ==
    [decoder_dist |-> [step |-> k, batch |-> B,
                       width |-> IF m.copy_attn THEN vocab_size + max_num_oov
                                 ELSE vocab_size],
     h_t_next |-> [b \in 1..B |-> HNext(k)],
     attn_dist |-> [step |-> k, batch |-> B, width |-> max_src_len],
     coverage |-> IF cov = None THEN None ELSE CovNext(k)]

LoopStep ==
    /\ pc = "loop"
    /\ t < max_target_length
    /\ LET B == batch_size
           ind == IF t = 0 THEN re_init_indicators ELSE Indicators(y_t_next)
           counters == IF t = 0 THEN [b \in 1..B |-> 0]
                       ELSE AddIndicators(pred_counters, ind)
           br == Branch(self, t, ind)
           h == SelectH(br, ind, counters, num_trgs.list, h_t_init, h_t_next)
           y == SelectY(br, ind, counters, num_trgs.list, y_t_init, y_t_next)
           bank == ReviewMemory(self, t, decoder_memory_bank, h)
           args == DecoderArgs(t, y, h, coverage, bank)
           out == DecoderStep(self, t, B, args.coverage)
       IN  /\ re_init_indicators' = ind
           /\ pred_counters' = counters
           /\ h_t' = h
           /\ y_t' = y
           /\ decoder_memory_bank' = bank
           /\ decoder_calls' = Append(decoder_calls, args)
           /\ decoder_dist_all' = Append(decoder_dist_all, out.decoder_dist)
           /\ h_t_next' = out.h_t_next
           /\ attention_dist_all' = Append(attention_dist_all, out.attn_dist)
           /\ coverage' = out.coverage
           /\ coverage_all' = IF self.coverage_attn
                              THEN Append(coverage_all, out.coverage)
                              ELSE coverage_all
           /\ y_t_next' = [b \in 1..B |-> trg[b][t + 1]]
           /\ t' = t + 1
    /\ UNCHANGED <<pc, error, self, callVars, h_t_init, y_t_init, result>>

----------------------------------------------------------------------------
(* forward: assembly of the outputs, lines 287-299 *)

\* torch.cat(list, dim=1) of [batch, 1, width] tensors
Cat(list) ==
    [shape |-> <<list[1].batch, Len(list), list[1].width>>,
     steps |-> [i \in 1..Len(list) |-> list[i].step]]

CovEntry(k, B) == [step |-> k, batch |-> B, width |-> max_src_len]

CoverageList(list, B) == [i \in 1..Len(list) |-> CovEntry(list[i][2], B)]

\* lines 291-297
ShapeAsserts(m, dist, attn, B, T) ==
    /\ dist.shape = <<B, T, IF m.copy_attn THEN vocab_size + max_num_oov ELSE vocab_size>>
    /\ attn.shape = <<B, T, max_src_len>>

Assemble ==
    /\ pc = "loop"
    /\ t = max_target_length
    /\ IF decoder_dist_all = <<>>
       THEN /\ pc' = "failed"
            /\ error' = "RuntimeError: torch.cat of an empty list"
            /\ UNCHANGED result
       ELSE LET dist == Cat(decoder_dist_all)
                attn == Cat(attention_dist_all)
                cov == IF self.coverage_attn
                       THEN Cat(CoverageList(coverage_all, batch_size))
                       ELSE None
                ok == ShapeAsserts(self, dist, attn, batch_size, max_target_length)
            IN  /\ pc' = IF ok THEN "returned" ELSE "failed"
                /\ error' = IF ok THEN "none" ELSE "AssertionError: shape"
                /\ result' = IF ok
                             THEN [decoder_dist_all |-> dist, h_t_next |-> h_t_next,
                                   attention_dist_all |-> attn, coverage_all |-> cov]
                             ELSE result
    /\ UNCHANGED <<self, callVars, t, pred_counters, re_init_indicators, h_t_init,
                   y_t_init, h_t, y_t, h_t_next, y_t_next, coverage,
                   decoder_memory_bank, decoder_dist_all, attention_dist_all,
                   coverage_all, decoder_calls>>

----------------------------------------------------------------------------
Init ==
    /\ pc = "new"
    /\ error = "none"
    /\ self = Unbound
    /\ trg = Unbound
    /\ num_trgs = NoNumTrgs
    /\ batch_size = 0
    /\ max_target_length = 0
    /\ t = 0
    /\ pred_counters = Unbound
    /\ re_init_indicators = Unbound
    /\ h_t_init = Unbound
    /\ y_t_init = Unbound
    /\ h_t = Unbound
    /\ y_t = Unbound
    /\ h_t_next = Unbound
    /\ y_t_next = Unbound
    /\ coverage = Unbound
    /\ decoder_memory_bank = Unbound
    /\ decoder_dist_all = Unbound
    /\ attention_dist_all = Unbound
    /\ coverage_all = Unbound
    /\ decoder_calls = <<>>
    /\ result = Unbound

Next == Construct \/ ForwardCall \/ LoopStep \/ Assemble

Spec == Init /\ [][Next]_vars

NextLong == Construct \/ ForwardCallLong \/ LoopStep \/ Assemble

SpecLong == Init /\ [][NextLong]_vars

----------------------------------------------------------------------------
(* Vocabulary of the properties *)

Items == 1..batch_size

\* one-to-many decoding is on and in mode n
Mode(n) == self.one2many /\ self.one2many_mode = n

\* one-to-many decoding is off, or in mode 1
Plain == ~self.one2many \/ self.one2many_mode = 1

Quota(b) == num_trgs.list[b]

\* the step is one iteration of the decode loop (iteration t)
Stepping == pc = "loop" /\ pc' = "loop" /\ t' = t + 1

\* a forward call has been made
Called == pc \in {"loop", "returned", "failed"}

\* at least one iteration has run (the last one is iteration t - 1)
Stepped == pc \in {"loop", "returned"} /\ t >= 1

\* the first end-marker of item b's target row is at index i (position i - 1)
FirstEosAt(b, i) == trg[b][i] = EOS /\ \A j \in 1..(i - 1) : trg[b][j] # EOS

NoEos(b) == \A j \in 1..max_target_length : trg[b][j] # EOS

\* iteration t feeds item b what iteration t - 1 left
Continued(b) == h_t'[b] = h_t_next[b] /\ y_t'[b] = y_t_next[b]

\* iteration t feeds item b the initial state and BOS
Reset(b) == h_t'[b] = h_t_init[b] /\ y_t'[b] = y_t_init[b]

----------------------------------------------------------------------------
(* Mode 2 *)

\* C1 (as stated): in mode 2 an item with quota >= 1 whose first end-marker is
\* at target position t - 1 is fed the initial state and BOS at step t, and an
\* item whose row has no end-marker continues at every step t >= 1.
C1_ResetWithQuotaOne ==
    [][(Stepping /\ t >= 1 /\ Mode(2)) =>
         \A b \in Items :
            /\ (FirstEosAt(b, t) /\ Quota(b) >= 1) => Reset(b)
            /\ NoEos(b) => Continued(b)]_vars

\* C1 (amended): in mode 2 an item whose first end-marker is at target position
\* t - 1 is fed the initial state and BOS at step t when its quota is >= 2 and
\* continues when its quota is 1 (the counter, already 1, is not below it); an
\* item whose row has no end-marker continues at every step t >= 1.
C1_ResetAfterFirstSegment ==
    [][(Stepping /\ t >= 1 /\ Mode(2)) =>
         \A b \in Items :
            /\ (FirstEosAt(b, t) /\ Quota(b) >= 2) => Reset(b)
            /\ (FirstEosAt(b, t) /\ Quota(b) = 1) => Continued(b)
            /\ NoEos(b) => Continued(b)]_vars

\* B = 2, Tmax = 3, quota [2, 1]: the first item ended a segment at position 0
\* and was reset at step 1, the second has no end-marker and continued
C1_Witness ==
    /\ pc = "loop" /\ Mode(2) /\ t = 2
    /\ batch_size = 2 /\ max_target_length = 3
    /\ num_trgs.list = <<2, 1>>
    /\ trg[1][1] = EOS /\ NoEos(2)
    /\ h_t[1] = HInit /\ y_t[1] = BOS
    /\ h_t[2] = HNext(0) /\ y_t[2] = WORD

\* C2: in mode 2, at a step t >= 1, an item whose indicator fires while its
\* counter equals its quota is fed the previous step's next-state and
\* next-token, not the initial state and BOS.
C2_NoResetAtQuota ==
    [][(Stepping /\ t >= 1 /\ Mode(2)) =>
         \A b \in Items :
            (re_init_indicators'[b] /\ pred_counters'[b] = Quota(b)) => Continued(b)]_vars

\* quota 1, first end-marker at position 1: at step 2 the item carries on
C2_Witness ==
    /\ pc = "loop" /\ Mode(2) /\ t = 3
    /\ \E b \in Items :
         /\ Quota(b) = 1
         /\ trg[b][1] = WORD /\ trg[b][2] = EOS
         /\ re_init_indicators[b] /\ pred_counters[b] = 1
         /\ h_t[b] = HNext(1) /\ y_t[b] = EOS

----------------------------------------------------------------------------
(* Mode 3 *)

\* C3: in mode 3, at every step t >= 1, every item is fed the previous step's
\* next-state; the token of an item whose indicator fired with its counter
\* below its quota is BOS, every other token is the previous step's next-token.
C3_TokenOnlyReset ==
    [][(Stepping /\ t >= 1 /\ Mode(3)) =>
         \A b \in Items :
            /\ h_t'[b] = h_t_next[b]
            /\ y_t'[b] = IF re_init_indicators'[b] /\ pred_counters'[b] < Quota(b)
                         THEN BOS ELSE y_t_next[b]]_vars

\* an item of a mode 3 batch got BOS at step 1 and kept the decoder's state
C3_Witness ==
    /\ pc = "loop" /\ Mode(3) /\ t = 2
    /\ \E b \in Items :
         /\ re_init_indicators[b] /\ pred_counters[b] < Quota(b)
         /\ y_t[b] = BOS /\ h_t[b] = HNext(0)

----------------------------------------------------------------------------
(* Plain decoding *)

\* C4: with one-to-many off or in mode 1, at every step t >= 1 every item is
\* fed the previous step's next-state and next-token, whatever the target,
\* the mode value and the quota argument.
C4_PlainNeverResets ==
    [][(Stepping /\ t >= 1 /\ Plain) => \A b \in Items : Continued(b)]_vars

\* one-to-many off with mode 2 and a quota vector passed: an item whose
\* previous target token was the end-marker carried on
C4_Witness ==
    /\ pc = "loop" /\ t = 2
    /\ ~self.one2many /\ self.one2many_mode = 2 /\ num_trgs.given
    /\ \E b \in Items :
         re_init_indicators[b] /\ h_t[b] = HNext(0) /\ y_t[b] = EOS

----------------------------------------------------------------------------
(* Entry checks *)

QuotaErrors ==
    {"AssertionError: you must supply the number of targets in each sample",
     "AssertionError: The length of num_trgs is incorrect"}

----------------------------------------------------------------------------
(* Segment counters *)

\* C6 (as stated): in modes 2 and 3, at every step and for every item, the
\* segment counter is at most the item's quota.
C6_CounterWithinQuota ==
    (Stepped /\ (Mode(2) \/ Mode(3))) =>
        \A b \in Items : pred_counters[b] <= Quota(b)

\* C7 (as stated): the counter starts at 0 and from one step to the next it
\* never decreases and grows by at most 1.
C7_CounterMonotone ==
    [][Stepping =>
         \A b \in Items :
            IF t = 0 THEN pred_counters'[b] = 0
            ELSE /\ pred_counters[b] <= pred_counters'[b]
                 /\ pred_counters'[b] <= pred_counters[b] + 1]_vars

----------------------------------------------------------------------------
(* Termination and outputs *)

\* the call passed the checks of lines 154-156
PassedEntryChecks == Called /\ trg # Unbound

\* C8 (as stated): a call that passes its entry checks invokes the decoder
\* exactly Tmax times and then ends.
C8_ExactlyTmaxCalls ==
    /\ (PassedEntryChecks /\ pc = "loop") => Len(decoder_calls) = t
    /\ (PassedEntryChecks /\ pc # "loop") => Len(decoder_calls) = Len(trg[1])

DistWidth == IF self.copy_attn THEN vocab_size + max_num_oov ELSE vocab_size

StepOrder(T) == [i \in 1..T |-> i - 1]

\* C9 (as stated, for the calls that obtained their initial decoder state):
\* forward returns a distribution of Tmax entries of width V (V + maxOOV with
\* copy-attention), an attention of Tmax entries of width S, both in step
\* order, and a coverage of Tmax entries of width S when coverage is on, none
\* otherwise, for every Tmax.
C9_OutputShapes ==
    (pc \in {"returned", "failed"} /\ h_t_init # Unbound) =>
        /\ pc = "returned"
        /\ result.decoder_dist_all.shape = <<batch_size, max_target_length, DistWidth>>
        /\ result.decoder_dist_all.steps = StepOrder(max_target_length)
        /\ result.attention_dist_all.shape = <<batch_size, max_target_length, max_src_len>>
        /\ result.attention_dist_all.steps = StepOrder(max_target_length)
        /\ IF self.coverage_attn
           THEN /\ result.coverage_all.shape = <<batch_size, max_target_length, max_src_len>>
                /\ result.coverage_all.steps = StepOrder(max_target_length)
           ELSE result.coverage_all = None

----------------------------------------------------------------------------
(* Construction *)

CopyMismatch ==
    self.bridge = "copy" /\ self.encoder_size * self.num_directions # self.decoder_size

\* C10: a model with bridge 'copy' and an encoder output size different from
\* the decoder size fails in its construction, and no forward call runs on it.
C10_CopyMismatchFailsConstruction ==
    (pc # "new" /\ CopyMismatch) =>
        /\ pc = "construct_failed"
        /\ error = "AssertionError: encoder hidden size and decoder hidden size are not match"
        /\ trg = Unbound /\ decoder_calls = <<>>

C10_Witness ==
    /\ pc = "construct_failed" /\ CopyMismatch
    /\ self.encoder_size = 1 /\ self.num_directions = 1 /\ self.decoder_size = 2

----------------------------------------------------------------------------
(* The bridge *)

DocumentedBridges == {"none", "copy", "dense", "dense_nonlinear"}

\* the exceptions init_decoder_state raises, lines 312-313
BridgeFailures ==
    {"TypeError: NoneType object is not callable",
     "AttributeError: NoneType object has no attribute unsqueeze"}

\* C11 (as stated): a bridge mode outside none, copy, dense, dense_nonlinear
\* fails the construction of the model, and no forward call on a constructed
\* model fails inside init_decoder_state.
C11_BridgeErrorsAtConstruction ==
    /\ (pc # "new" /\ self.bridge \notin DocumentedBridges) => pc = "construct_failed"
    /\ Called => error \notin BridgeFailures

\* C12 (as stated): with each of the four documented bridge modes (copy with
\* matching sizes) the construction succeeds and init_decoder_state completes,
\* with no initial state for 'none' and one initial state per item otherwise.
C12_DocumentedBridgesUsable ==
    (pc # "new" /\ self.bridge \in DocumentedBridges /\ ~CopyMismatch) =>
        /\ pc # "construct_failed"
        /\ Called => error \notin BridgeFailures
        /\ pc = "loop" =>
              h_t_init = IF self.bridge = "none" THEN None
                         ELSE [b \in Items |-> HInit]

----------------------------------------------------------------------------
(* Indicators and teacher forcing *)

Bit(x) == IF x THEN 1 ELSE 0

\* C13 (as stated): at every step t >= 1 the indicator of an item is true
\* exactly when the token fed to the decoder for that item at step t-1 is the
\* end-marker, and the counter grows by exactly that indicator; at t = 0 no
\* indicator is evaluated and nothing is added.
C13_IndicatorOfFedToken ==
    [][Stepping =>
         IF t = 0
         THEN /\ re_init_indicators' = re_init_indicators
              /\ \A b \in Items : pred_counters'[b] = 0
         ELSE \A b \in Items :
                 /\ re_init_indicators'[b] = (y_t[b] = EOS)
                 /\ pred_counters'[b] = pred_counters[b] + Bit(re_init_indicators'[b])]_vars

\* C13 (amended): at every step t >= 1 the indicator of an item is true exactly
\* when the ground-truth target token at position t-1 is the end-marker,
\* whatever token was fed at step t-1, and the 8-bit counter grows by exactly
\* that indicator; at t = 0 no indicator is evaluated and the counter is 0.
C13_IndicatorOfTargetToken ==
    [][Stepping =>
         IF t = 0
         THEN /\ re_init_indicators' = re_init_indicators
              /\ \A b \in Items : pred_counters'[b] = 0
         ELSE \A b \in Items :
                 /\ re_init_indicators'[b] = (trg[b][t] = EOS)
                 /\ pred_counters'[b] =
                        (pred_counters[b] + Bit(re_init_indicators'[b])) % Uint8Mod]_vars

\* step 1 is done: item 1, whose target starts with the end-marker, was fed BOS
\* at step 0 and has its indicator and its counter raised; item 2 has neither
C13_Witness ==
    /\ pc = "loop" /\ t = 2 /\ batch_size = 2
    /\ trg[1][1] = EOS /\ trg[2][1] = WORD
    /\ re_init_indicators = <<TRUE, FALSE>>
    /\ pred_counters = <<1, 0>>
    /\ decoder_calls[1].step = 0

\* number of end-markers among the first n target tokens of item b
EosCount(b, n) == Cardinality({j \in 1..n : trg[b][j] = EOS})

\* the reset test of item b at step k >= 1, from its target row and quota alone
OwnReset(b, k) ==
    /\ QuotaAware(self)
    /\ trg[b][k] = EOS
    /\ EosCount(b, k) % Uint8Mod < Quota(b)

\* C14: in every mode the next-token recorded after step t is the target token
\* at position t; the token fed is BOS at t = 0 and, at t >= 1, the target token
\* at position t-1 or, only for an item reset in mode 2 or 3, BOS; the fed
\* tokens, the counters and the reset decisions are functions of the target
\* and the quotas alone, so no decoder output enters them.
C14_TeacherForcing ==
    [][Stepping =>
         \A b \in Items :
            /\ y_t_next'[b] = trg[b][t + 1]
            /\ pred_counters'[b] = EosCount(b, t) % Uint8Mod
            /\ y_t'[b] = IF t = 0 THEN BOS
                         ELSE IF OwnReset(b, t) THEN BOS
                         ELSE trg[b][t]]_vars

\* three steps of a plain model: the end-marker of the target was fed as is
C14_Witness ==
    /\ pc = "loop" /\ t = 3 /\ Plain
    /\ trg[1] = <<WORD, EOS, WORD>>
    /\ y_t[1] = EOS /\ y_t_next[1] = WORD
    /\ pred_counters[1] = 1
    /\ Len(decoder_calls) = 3

----------------------------------------------------------------------------
(* Review memory and coverage *)

\* the arguments of the decoder invocation of step k
CallOf(k) == decoder_calls[k + 1]

\* the arguments of the latest decoder invocation
LastCall == decoder_calls[Len(decoder_calls)]

\* C15: with review attention the memory passed to the decoder at step t has
\* t+1 entries, its entries 0..t-1 are those passed at step t-1, and entry t is
\* the hidden state selected at step t (the initial state at step 0 and for an
\* item reset in mode 2); without review attention it is absent at every step.
C15_ReviewMemory ==
    [][Stepping =>
         LET passed == LastCall'.decoder_memory_bank
         IN  IF self.review_attn
             THEN /\ Len(passed) = t + 1
                  /\ t >= 1 => \A k \in 1..t :
                                  passed[k] = CallOf(t - 1).decoder_memory_bank[k]
                  /\ passed[t + 1] = h_t'
                  /\ passed[t + 1] = LastCall'.h_t /\ LastCall'.step = t
                  /\ t = 0 => \A b \in Items : passed[1][b] = HInit
                  /\ (t >= 1 /\ Mode(2)) =>
                        \A b \in Items : OwnReset(b, t) => passed[t + 1][b] = HInit
             ELSE passed = NoneList]_vars

\* mode 2 with review attention after two steps: the entry of step 1 holds the
\* initial state for the reset item 1 and the carried state for item 2
C15_Witness ==
    /\ pc = "loop" /\ t = 2 /\ batch_size = 2 /\ self.review_attn /\ Mode(2)
    /\ decoder_memory_bank = <<<<HInit, HInit>>, <<HInit, HNext(0)>>>>
    /\ CallOf(1).decoder_memory_bank = decoder_memory_bank
    /\ CallOf(0).decoder_memory_bank = <<<<HInit, HInit>>>>

----------------------------------------------------------------------------
(* Independence of the batch items *)

\* C16: in modes 2 and 3 the choice between the initial and the carried hidden
\* state, and between BOS and the target token, made for item i at a step is
\* decided by item i's own target row and quota; an item whose own test fails
\* receives what the continue branch gives it, whichever other items fire.
C16_ItemsIndependent ==
    [][(Stepping /\ t >= 1 /\ QuotaAware(self)) =>
         \A b \in Items :
            /\ h_t'[b] = IF Mode(2) /\ OwnReset(b, t) THEN h_t_init[b] ELSE h_t_next[b]
            /\ y_t'[b] = IF OwnReset(b, t) THEN y_t_init[b] ELSE y_t_next[b]
            /\ ~OwnReset(b, t) => Continued(b)]_vars

\* mode 2, step 1 done: item 1 fired and was reset, item 2 did not fire and
\* carries on
C16_Witness ==
    /\ pc = "loop" /\ t = 2 /\ batch_size = 2 /\ Mode(2)
    /\ re_init_indicators = <<TRUE, FALSE>>
    /\ num_trgs.list = <<2, 2>>
    /\ h_t = <<HInit, HNext(0)>>
    /\ y_t = <<BOS, WORD>>

----------------------------------------------------------------------------
(* Number of resets *)

\* the steps t >= 1 at which item b was fed the initial token
ResetSteps(b) == {k \in 1..(Len(decoder_calls) - 1) : CallOf(k).y_t[b] = BOS}

Max(x, y) == IF x >= y THEN x ELSE y

\* C17 (as stated): in modes 2 and 3 the number of steps of one forward call at
\* which an item is reset is at most max(quota - 1, 0), for every target length
\* and every number of end-markers; an item of quota 0 or 1 is never reset.
C17_ResetsBelowQuota ==
    (decoder_calls # <<>> /\ QuotaAware(self)) =>
        \A b \in Items : Cardinality(ResetSteps(b)) <= Max(Quota(b) - 1, 0)

----------------------------------------------------------------------------
(* What a reset leaves alone *)

\* C18: with coverage enabled the accumulator passed to the decoder at step t
\* is all zeros at t = 0 and the coverage the decoder returned at step t-1 for
\* t >= 1, also when items are reset at step t; the initial hidden state and
\* the initial token vector are the same at every step of the call.
C18_ResetKeepsCoverage ==
    [][Stepping =>
         /\ self.coverage_attn =>
               /\ LastCall'.coverage = coverage
               /\ LastCall'.coverage = IF t = 0 THEN CovZeros ELSE coverage_all[t]
               /\ LastCall'.coverage = IF t = 0 THEN CovZeros ELSE CovNext(t - 1)
         /\ ~self.coverage_attn => LastCall'.coverage = None
         /\ h_t_init' = h_t_init /\ h_t_init = [b \in Items |-> HInit]
         /\ y_t_init' = y_t_init /\ y_t_init = [b \in Items |-> BOS]]_vars

\* mode 2 with coverage after two steps: item 1 was reset at step 1, and the
\* decoder was handed the coverage it had returned at step 0
C18_Witness ==
    /\ pc = "loop" /\ t = 2 /\ batch_size = 2 /\ Mode(2) /\ self.coverage_attn
    /\ CallOf(0).coverage = CovZeros
    /\ CallOf(1).coverage = CovNext(0)
    /\ CallOf(1).h_t = <<HInit, HNext(0)>>
    /\ CallOf(1).y_t = <<BOS, WORD>>
    /\ h_t_init = <<HInit, HInit>> /\ y_t_init = <<BOS, BOS>>
====
